---- MODULE Spec2Model ----
(***************************************************************************)
(* A model of the tgpt relay (src/api.py): the Flask handlers /ask,        *)
(* /brainstorm, /history and /clear-history, the shared thread pool that   *)
(* runs one tgpt subprocess per provider, the MariaDB conversation log and *)
(* the dataset files.                                                      *)
(*                                                                         *)
(* Text is a sequence of tokens.  Text that comes from outside (a query,   *)
(* a subprocess's stdout and stderr, a file name) is a sequence of         *)
(* one-character strings, so that len(), slicing and strip() count         *)
(* characters; the literal pieces of an f-string are single tokens.        *)
(* Wall-clock timestamps (_now_str) are left out of replies, log rows and  *)
(* dataset records: no operation of the program reads them back.           *)
(***************************************************************************)
EXTENDS Integers, Sequences, FiniteSets, TLC

VARIABLES
    USE_DB,         \* api.py:20-39: FALSE when the connection failed at start-up
    conversations,  \* the rows of table conversations, in id order
    dbFailures,     \* how many statements have failed so far (bounded)
    req,            \* one record per HTTP request: its handler's locals and position
    queue,          \* executor's work queue: submitted calls no worker has taken
    running,        \* the calls a worker thread is executing (subprocess alive)
    files           \* DATASET_DIR: path -> the lines of the file

vars == <<USE_DB, conversations, dbFailures, req, queue, running, files>>

----------------------------------------------------------------------------
(* Bounds of the model. *)

\* HTTP requests served (each by its own thread of the Flask server).
MaxRequests == 2

\* Executor calls submitted over the whole run.
MaxCalls == 6

\* Statements the database rejects over the whole run.
MaxDbFailures == 1

----------------------------------------------------------------------------
(* Program constants. *)

VALID_PROVIDERS == <<"pollinations", "sky", "phind", "koboldai", "kimi">>

GROUP_LIST == VALID_PROVIDERS

\* ThreadPoolExecutor(max_workers=5)
max_workers == 5

\* err[:800]
ErrLimit == 800

\* fetch_history(session_id, limit=500)
HistoryLimit == 500

ValidSet == {VALID_PROVIDERS[i] : i \in DOMAIN VALID_PROVIDERS}

----------------------------------------------------------------------------
(* Text. *)

Min(a, b) == IF a < b THEN a ELSE b

Rep(c, n) == [i \in 1..n |-> c]

IsSpace(c) == c \in {" ", "\n", "\t"}

RECURSIVE lstrip(_)
lstrip(s) == IF s = <<>> THEN s
             ELSE IF IsSpace(Head(s)) THEN lstrip(Tail(s)) ELSE s

RECURSIVE rstrip(_)
rstrip(s) == IF s = <<>> THEN s
             ELSE IF IsSpace(s[Len(s)]) THEN rstrip(SubSeq(s, 1, Len(s) - 1)) ELSE s

\* str.strip()
strip(s) == rstrip(lstrip(s))

\* s[:n]
Slice(s, n) == SubSeq(s, 1, Min(n, Len(s)))

\* needle in text
Contains(text, needle) ==
    \E i \in 0..(Len(text) - Len(needle)) :
        SubSeq(text, i + 1, i + Len(needle)) = needle

IsPrefix(p, s) == Len(p) <= Len(s) /\ SubSeq(s, 1, Len(p)) = p

\* the elements of a sequence
Range(s) == {s[i] : i \in DOMAIN s}

\* [x for x in s if x in keep]
RECURSIVE SelectIn(_, _)
SelectIn(s, keep) ==
    IF s = <<>> THEN <<>>
    ELSE IF Head(s) \in keep THEN <<Head(s)>> \o SelectIn(Tail(s), keep)
    ELSE SelectIn(Tail(s), keep)

----------------------------------------------------------------------------
(* Backend Invoker. *)

\* What subprocess.run did: "exit" (it returned a CompletedProcess),
\* "timeout" (TimeoutExpired after TGPT_TIMEOUT, the child killed) or
\* "oserror" (the binary could not be launched).
ExceptionText(how) ==
    IF how = "timeout" THEN <<"Command timed out after TGPT_TIMEOUT seconds">>
    ELSE <<"No such file or directory: tgpt">>

ErrorTag(provider) == <<"[", provider, " error]">>

\* A mutant: the output is not trimmed, and the error text is not cut.
run_tgpt_blocking_untrimmed(provider, proc) ==
    IF proc.how # "exit" THEN ErrorTag(provider) \o <<" ">> \o ExceptionText(proc.how)
    ELSE IF proc.stdout # <<>> THEN proc.stdout
    ELSE IF strip(proc.stderr) # <<>>
         THEN ErrorTag(provider) \o <<" ">> \o strip(proc.stderr)
         ELSE <<"[", provider, "]", " (no output)">>

run_tgpt_blocking(provider, proc) ==
    IF proc.how # "exit"
    THEN \* except Exception as e
         ErrorTag(provider) \o <<" ">> \o ExceptionText(proc.how)
    ELSE LET text == strip(proc.stdout)
             err  == strip(proc.stderr)
         IN  IF text # <<>> THEN text
             ELSE IF err # <<>>
                  THEN ErrorTag(provider) \o <<" ">> \o Slice(err, ErrLimit)
                  ELSE <<"[", provider, "]", " (no output)">>

----------------------------------------------------------------------------
(* Session Recorder.  A statement either succeeds or raises; `ok` is which. *)
(* An operator returns the rows it leaves and whether it raised.            *)

Row(session_id, provider, message, mtype) ==
    [session_id |-> session_id, provider |-> provider,
     message |-> message, type |-> mtype]

\* A mutant: no try/except around the statement, no USE_DB guard.
save_to_db_raising(session_id, provider, message, mtype, ok) ==
    IF USE_DB /\ ok
    THEN [rows |-> Append(conversations, Row(session_id, provider, message, mtype)),
          raised |-> FALSE]
    ELSE [rows |-> conversations, raised |-> TRUE]

save_to_db(session_id, provider, message, mtype, ok) ==
    IF ~USE_DB THEN [rows |-> conversations, raised |-> FALSE]
    ELSE IF ok
         THEN [rows |-> Append(conversations,
                               Row(session_id, provider, message, mtype)),
               raised |-> FALSE]
         ELSE \* except Exception: print
              [rows |-> conversations, raised |-> FALSE]

\* SELECT provider, message ... WHERE session_id=%s ORDER BY id ASC
RECURSIVE SelectSession(_, _)
SelectSession(rows, session_id) ==
    IF rows = <<>> THEN <<>>
    ELSE IF Head(rows).session_id = session_id
         THEN <<[provider |-> Head(rows).provider, message |-> Head(rows).message]>>
              \o SelectSession(Tail(rows), session_id)
         ELSE SelectSession(Tail(rows), session_id)

fetch_history(session_id, ok) ==
    IF ~USE_DB THEN [rows |-> <<>>, raised |-> FALSE]
    ELSE IF ok
         THEN [rows |-> Slice(SelectSession(conversations, session_id), HistoryLimit),
               raised |-> FALSE]
         ELSE [rows |-> <<>>, raised |-> FALSE]

\* DELETE FROM conversations WHERE session_id = %s
RECURSIVE DeleteSession(_, _)
DeleteSession(rows, session_id) ==
    IF rows = <<>> THEN <<>>
    ELSE IF Head(rows).session_id = session_id
         THEN DeleteSession(Tail(rows), session_id)
         ELSE <<Head(rows)>> \o DeleteSession(Tail(rows), session_id)

\* The outcomes a statement can have now: it may fail while the model's budget
\* of failures lasts.  With the storage disabled no statement is issued.
StatementOutcomes ==
    IF USE_DB /\ dbFailures < MaxDbFailures THEN {TRUE, FALSE} ELSE {TRUE}

Failed(ok) == IF USE_DB /\ ~ok THEN 1 ELSE 0

----------------------------------------------------------------------------
(* Requests. *)

ReqIds == 1..MaxRequests

NoBody == [kind |-> "none", error |-> <<>>, replies |-> <<>>,
           history |-> <<>>, saved_to |-> <<>>]

Idle == [pc |-> "idle", route |-> "none", session_id |-> "", query |-> <<>>,
         named |-> <<>>, providers |-> <<>>, mtype |-> "", calls |-> <<>>,
         replies |-> <<>>, entries |-> <<>>,
         save_dataset |-> FALSE, save_format |-> "", save_shape |-> "",
         filename |-> <<>>, dialog |-> <<>>, exists |-> FALSE,
         status |-> 0, body |-> NoBody,
         saves |-> <<>>, overtaken |-> FALSE]

\* History kept for the properties, not by the program: `saves` lists a
\* request's save_to_db calls (type, provider, whether a row was stored),
\* `overtaken` is set when one of its calls finishes before an earlier one,
\* `named` is the provider field as the request gave it.

\* (x or default), for a field held as a string
OrDefault(x, default) == IF x = "" THEN default ELSE x

\* str(form.get("save_dataset","0")).strip() in ("1","true","True","yes","on")
Truthy(s) == s \in {"1", "true", "True", "yes", "on"}

Committed == LET RECURSIVE Sum(_)
                 Sum(S) == IF S = {} THEN 0
                           ELSE LET x == CHOOSE y \in S : TRUE
                                IN  Len(req[x].providers) + Sum(S \ {x})
             IN  Sum(ReqIds)

----------------------------------------------------------------------------
(* Fan-Out Coordinator and the shared executor. *)

NoProc == [how |-> "", stdout |-> <<>>, stderr |-> <<>>, returncode |-> 0]

\* One loop.run_in_executor(executor, run_tgpt_blocking, p, prompt): st is
\* "queued", "running" or "done"; once done, text is what the function
\* returned and proc what its subprocess did.
NewCall == [st |-> "queued", text |-> <<>>, raised |-> FALSE, proc |-> NoProc]

\* A mutant: only the providers that answered get an entry.
ask_providers_parallel_answered(providers, results) ==
    LET RECURSIVE Build(_)
        Build(i) ==
            IF i > Min(Len(providers), Len(results)) THEN <<>>
            ELSE IF results[i].proc.how = "exit"
                 THEN <<[provider |-> providers[i], reply |-> results[i].text]>>
                      \o Build(i + 1)
                 ELSE Build(i + 1)
    IN  Build(1)

\* results = await asyncio.gather(*tasks, return_exceptions=True), then the
\* zip of providers and results.
ask_providers_parallel(providers, results) ==
    [i \in 1..Min(Len(providers), Len(results)) |->
        [provider |-> providers[i],
         reply |-> IF results[i].raised
                   THEN ErrorTag(providers[i]) \o <<" ">> \o results[i].text
                   ELSE results[i].text]]

\* A mutant: the executor starts a thread for every call.
PoolHasWorker_unbounded == TRUE

\* A mutant: a worker is only free when no call at all is running.
PoolHasWorker_single == running = {}

\* executor = ThreadPoolExecutor(max_workers=5): a queued call is taken when
\* fewer than max_workers calls are being executed.
PoolHasWorker == Cardinality(running) < max_workers

\* for p in providers: tasks.append(loop.run_in_executor(...)), one call a step
submit(r) ==
    /\ req[r].pc = "submit"
    /\ LET i == Len(req[r].calls) + 1
       IN  /\ req' = [req EXCEPT ![r].calls = Append(@, NewCall),
                                 ![r].pc = IF i = Len(req[r].providers)
                                           THEN "gather" ELSE "submit"]
           /\ queue' = Append(queue, <<r, i>>)
    /\ UNCHANGED <<USE_DB, conversations, dbFailures, running, files>>

\* A worker thread takes the oldest queued call and starts its subprocess.
worker_start ==
    /\ queue # <<>>
    /\ PoolHasWorker
    /\ LET t == Head(queue)
       IN  /\ running' = running \cup {t}
           /\ req' = [req EXCEPT ![t[1]].calls[t[2]].st = "running"]
    /\ queue' = Tail(queue)
    /\ UNCHANGED <<USE_DB, conversations, dbFailures, files>>

\* subprocess.run returns or raises in the worker; the call's future is set.
worker_finish(t, proc) ==
    /\ t \in running
    /\ LET r == t[1]
           i == t[2]
       IN  req' = [req EXCEPT
                ![r].calls[i] = [st |-> "done",
                                 text |-> run_tgpt_blocking(req[r].providers[i], proc),
                                 raised |-> FALSE, proc |-> proc],
                ![r].overtaken = @ \/ \E j \in 1..(i - 1) : req[r].calls[j].st # "done"]
    /\ running' = running \ {t}
    /\ UNCHANGED <<USE_DB, conversations, dbFailures, queue, files>>

\* asyncio.gather returns once every future is done; the replies are built.
gather(r) ==
    /\ req[r].pc = "gather"
    /\ \A i \in DOMAIN req[r].calls : req[r].calls[i].st = "done"
    /\ req' = [req EXCEPT ![r].replies = ask_providers_parallel(req[r].providers,
                                                               req[r].calls),
                          ![r].pc = "save"]
    /\ UNCHANGED <<USE_DB, conversations, dbFailures, queue, running, files>>

----------------------------------------------------------------------------
(* Dataset Exporter.  A file is the sequence of its lines; a line is a     *)
(* record: the csv header of a shape, a csv row, or one JSON object.       *)

\* .replace("/", "_")
Sanitize(s) == [i \in DOMAIN s |-> IF s[i] = "/" THEN "_" ELSE s[i]]

dataset_path(filename, fmt) ==
    <<Sanitize(strip(IF filename = <<>> THEN <<"dataset_", "time">> ELSE filename)),
      IF fmt = "csv" THEN ".csv" ELSE ".json">>

Line(kind, shape, session_id, provider, message, mtype, dialog) ==
    [kind |-> kind, shape |-> shape, session_id |-> session_id,
     provider |-> provider, message |-> message, type |-> mtype, dialog |-> dialog]

\* writer.writerow(["timestamp","session_id","provider","message","type"]) or
\* writer.writerow(["session_id","saved_at","dialog_json"])
Header(shape) == Line("header", shape, "", "", <<>>, "", <<>>)

\* if not exists: writer.writerow(header)
HeaderNeeded(exists) == ~exists

\* What append_dataset_lines writes to the file it opened, given what
\* fp.exists() answered before the open.
append_dataset_lines(session_id, fmt, entries, exists) ==
    IF fmt = "csv"
    THEN (IF HeaderNeeded(exists) THEN <<Header("lines")>> ELSE <<>>)
         \o [i \in DOMAIN entries |->
                Line("row", "lines", session_id, entries[i].provider,
                     entries[i].message, entries[i].type, <<>>)]
    ELSE [i \in DOMAIN entries |->
                Line("json", "lines", session_id, entries[i].provider,
                     entries[i].message, entries[i].type, <<>>)]

\* What append_dataset_dialog writes: the whole dialog as one row or object.
append_dataset_dialog(session_id, fmt, dialog_list, exists) ==
    IF fmt = "csv"
    THEN (IF HeaderNeeded(exists) THEN <<Header("dialog")>> ELSE <<>>)
         \o <<Line("row", "dialog", session_id, "", <<>>, "", dialog_list)>>
    ELSE <<Line("json", "dialog", session_id, "", <<>>, "", dialog_list)>>

\* A mutant: the file is opened with mode "w".
FileAppend_truncating(old, lines) == lines

\* fp.open("a"): what is written goes after what the file holds.
FileAppend(old, lines) == old \o lines

Exists(fp) == fp \in DOMAIN files

FileLines(fp) == IF Exists(fp) THEN files[fp] ELSE <<>>

WriteFile(fp, lines) ==
    [p \in DOMAIN files \cup {fp} |->
        IF p = fp THEN FileAppend(FileLines(fp), lines) ELSE files[p]]

----------------------------------------------------------------------------
(* The handlers. *)

ErrorBody(text) == [NoBody EXCEPT !.kind = "error", !.error = text]

\* An exception no handler catches: Flask answers 500.
Abort(rec) == [rec EXCEPT !.pc = "done", !.status = 500,
                          !.body = [NoBody EXCEPT !.kind = "exception"]]

\* return jsonify(...) of /ask and /brainstorm
Respond(rec, saved) ==
    [rec EXCEPT !.pc = "done", !.status = 200,
                !.body = [NoBody EXCEPT
                            !.kind = IF rec.route = "ask" /\ Len(rec.replies) = 1
                                     THEN "reply" ELSE "multi",
                            !.replies = rec.replies,
                            !.saved_to = saved]]

Fp(rec) == dataset_path(rec.filename, rec.save_format)

\* Where the handler goes once its replies are saved.
AfterSave(rec) ==
    IF ~rec.save_dataset THEN Respond(rec, <<>>)
    ELSE [rec EXCEPT !.pc = IF rec.save_shape = "dialog" THEN "fetch"
                            ELSE IF rec.save_format = "csv" THEN "exists"
                            ELSE "open"]

\* A mutant: /ask checks the provider before it records the user message.
RecordsUser_validated(query, provider) ==
    /\ query # <<>>
    /\ \/ provider = <<"group">>
       \/ Len(provider) = 1 /\ provider[1] \in ValidSet

\* if query: save_to_db(session_id, "user", query, "user")
RecordsUser(query, provider) == query # <<>>

\* A mutant: /ask passes an unknown provider on to the backend.
AskProviders_unchecked(provider) ==
    IF provider = <<"group">> THEN GROUP_LIST
    ELSE IF Len(provider) = 1 THEN provider ELSE <<"phind">>

\* The provider handling of /ask; <<>> stands for the rejection.
AskProviders(provider) ==
    IF provider = <<"group">> THEN GROUP_LIST
    ELSE IF ~(Len(provider) = 1 /\ provider[1] \in ValidSet) THEN <<>>
    ELSE provider

\* A mutant: /brainstorm keeps the names it was given.
BrainstormProviders_unfiltered(providers) ==
    IF providers = <<"group">> THEN GROUP_LIST ELSE providers

\* "Resolve providers" of /brainstorm
BrainstormProviders(providers) ==
    IF providers = <<"group">> \/ (Len(providers) = 1 /\ providers[1] = "group")
    THEN GROUP_LIST
    ELSE LET kept == SelectIn(providers, ValidSet)
         IN  IF kept = <<>> THEN GROUP_LIST ELSE kept

\* Request r is the next one to arrive: requests are numbered as they come.
Arrives(r) == req[r].pc = "idle" /\ \A q \in 1..(r - 1) : req[q].pc # "idle"

\* POST /ask, up to the fan-out: the form is read, the user message is
\* recorded, the provider is resolved.
ask(r, form) ==
    LET session_id == OrDefault(form.session_id, "default")
        provider   == strip(IF form.provider = <<>> THEN <<"phind">> ELSE form.provider)
        query      == strip(form.query)
        providers  == AskProviders(provider)
        entered    == [Idle EXCEPT
                         !.route = "ask", !.session_id = session_id,
                         !.query = query, !.named = provider, !.mtype = "bot",
                         !.save_dataset = Truthy(form.save_dataset),
                         !.save_format = OrDefault(form.save_format, "csv"),
                         !.save_shape = OrDefault(form.save_shape, "lines"),
                         !.filename = strip(form.filename)]
    IN  /\ Arrives(r)
        /\ Committed + Len(providers) <= MaxCalls
        /\ IF query = <<>> /\ ~form.has_file
           THEN /\ req' = [req EXCEPT ![r] =
                            [entered EXCEPT !.pc = "done", !.status = 200,
                                            !.body = ErrorBody(<<"empty query">>)]]
                /\ UNCHANGED <<conversations, dbFailures>>
           ELSE \E ok \in (IF RecordsUser(query, provider)
                           THEN StatementOutcomes ELSE {TRUE}) :
                  LET saved == IF RecordsUser(query, provider)
                               THEN save_to_db(session_id, "user", query, "user", ok)
                               ELSE [rows |-> conversations, raised |-> FALSE]
                      noted == IF RecordsUser(query, provider)
                               THEN [entered EXCEPT !.saves =
                                       <<[type |-> "user", provider |-> "user",
                                          stored |-> saved.rows # conversations]>>]
                               ELSE entered
                  IN  /\ conversations' = saved.rows
                      /\ dbFailures' = dbFailures +
                            (IF RecordsUser(query, provider) THEN Failed(ok) ELSE 0)
                      /\ req' = [req EXCEPT ![r] =
                            IF saved.raised THEN Abort(noted)
                            ELSE IF providers = <<>>
                            THEN [noted EXCEPT !.pc = "done", !.status = 200,
                                    !.body = ErrorBody(<<"invalid provider">>)]
                            ELSE [noted EXCEPT !.pc = "submit",
                                               !.providers = providers]]
        /\ UNCHANGED <<USE_DB, queue, running, files>>

\* POST /brainstorm, up to the fan-out.
brainstorm(r, data) ==
    LET named     == IF data.providers = <<>> THEN <<"group">> ELSE data.providers
        providers == BrainstormProviders(named)
    IN  /\ Arrives(r)
        /\ Committed + Len(providers) <= MaxCalls
        /\ req' = [req EXCEPT ![r] =
              [Idle EXCEPT
                 !.route = "brainstorm", !.pc = "submit",
                 !.session_id = OrDefault(data.session_id, "default"),
                 !.named = named, !.providers = providers, !.mtype = "brainstorm",
                 !.save_dataset = data.save_dataset,
                 !.save_format = OrDefault(data.save_format, "csv"),
                 !.save_shape = OrDefault(data.save_shape, "lines"),
                 !.filename = strip(data.filename)]]
        /\ UNCHANGED <<USE_DB, conversations, dbFailures, queue, running, files>>

\* "Save replies": one save_to_db per reply, in the order of the replies.
\* After the last one the handler answers, unless a dataset is to be saved.
save_reply(r) ==
    /\ req[r].pc = "save"
    /\ LET rec  == req[r]
           i    == Len(rec.entries) + 1
           item == rec.replies[i]
       IN  \E ok \in StatementOutcomes :
             LET saved == save_to_db(rec.session_id, item.provider, item.reply,
                                     rec.mtype, ok)
                 next  == [rec EXCEPT
                             !.entries = Append(@, [provider |-> item.provider,
                                                    message |-> item.reply,
                                                    type |-> rec.mtype]),
                             !.saves = Append(@, [type |-> rec.mtype,
                                                  provider |-> item.provider,
                                                  stored |-> saved.rows # conversations])]
             IN  /\ conversations' = saved.rows
                 /\ dbFailures' = dbFailures + Failed(ok)
                 /\ req' = [req EXCEPT ![r] =
                       IF saved.raised THEN Abort(next)
                       ELSE IF i = Len(rec.replies) THEN AfterSave(next)
                       ELSE next]
    /\ UNCHANGED <<USE_DB, queue, running, files>>

\* dialog = fetch_history(session_id) if USE_DB else entries
export_fetch(r) ==
    /\ req[r].pc = "fetch"
    /\ \E ok \in StatementOutcomes :
         LET got == IF USE_DB THEN fetch_history(req[r].session_id, ok)
                    ELSE [rows |-> req[r].entries, raised |-> FALSE]
         IN  /\ dbFailures' = dbFailures + Failed(ok)
             /\ req' = [req EXCEPT ![r] =
                   IF got.raised THEN Abort(req[r])
                   ELSE [req[r] EXCEPT !.dialog = got.rows,
                            !.pc = IF req[r].save_format = "csv"
                                   THEN "exists" ELSE "open"]]
    /\ UNCHANGED <<USE_DB, conversations, queue, running, files>>

\* exists = fp.exists()
export_exists(r) ==
    /\ req[r].pc = "exists"
    /\ req' = [req EXCEPT ![r].exists = Exists(Fp(req[r])), ![r].pc = "open"]
    /\ UNCHANGED <<USE_DB, conversations, dbFailures, queue, running, files>>

\* fp.open("a"): the file is created when it is not there.
export_open(r) ==
    /\ req[r].pc = "open"
    /\ files' = WriteFile(Fp(req[r]), <<>>)
    /\ req' = [req EXCEPT ![r].pc = "write"]
    /\ UNCHANGED <<USE_DB, conversations, dbFailures, queue, running>>

\* The rows are written and the file is closed: what was buffered reaches
\* the file in one append.  The handler then answers.
export_write(r) ==
    /\ req[r].pc = "write"
    /\ LET rec   == req[r]
           lines == IF rec.save_shape = "dialog"
                    THEN append_dataset_dialog(rec.session_id, rec.save_format,
                                               rec.dialog, rec.exists)
                    ELSE append_dataset_lines(rec.session_id, rec.save_format,
                                              rec.entries, rec.exists)
       IN  /\ files' = WriteFile(Fp(rec), lines)
           /\ req' = [req EXCEPT ![r] = Respond(rec, Fp(rec))]
    /\ UNCHANGED <<USE_DB, conversations, dbFailures, queue, running>>

\* GET /history
history(r, session_id) ==
    /\ Arrives(r)
    /\ IF session_id = ""
       THEN /\ req' = [req EXCEPT ![r] =
                  [Idle EXCEPT !.route = "history", !.pc = "done", !.status = 400,
                               !.body = ErrorBody(<<"session_id required">>)]]
            /\ UNCHANGED dbFailures
       ELSE \E ok \in StatementOutcomes :
              LET got == IF USE_DB THEN fetch_history(session_id, ok)
                         ELSE [rows |-> <<>>, raised |-> FALSE]
                  rec == [Idle EXCEPT !.route = "history", !.session_id = session_id]
              IN  /\ dbFailures' = dbFailures + Failed(ok)
                  /\ req' = [req EXCEPT ![r] =
                        IF got.raised THEN Abort(rec)
                        ELSE [rec EXCEPT !.pc = "done", !.status = 200,
                                !.body = [NoBody EXCEPT !.kind = "history",
                                                        !.history = got.rows]]]
    /\ UNCHANGED <<USE_DB, conversations, queue, running, files>>

\* POST /clear-history: db_conn is used without a look at USE_DB; whatever
\* the statement raises (db_conn being None included) is answered as a 500.
clear_history(r, session_id) ==
    /\ Arrives(r)
    /\ \E ok \in StatementOutcomes :
         LET rec == [Idle EXCEPT !.route = "clear", !.session_id = session_id]
         IN  /\ dbFailures' = dbFailures + Failed(ok)
             /\ IF USE_DB /\ ok
                THEN /\ conversations' = DeleteSession(conversations, session_id)
                     /\ req' = [req EXCEPT ![r] =
                           [rec EXCEPT !.pc = "done", !.status = 200,
                               !.body = [NoBody EXCEPT !.kind = "message"]]]
                ELSE /\ conversations' = conversations
                     /\ req' = [req EXCEPT ![r] =
                           [rec EXCEPT !.pc = "done", !.status = 500,
                               !.body = ErrorBody(<<"str(e)">>)]]
    /\ UNCHANGED <<USE_DB, queue, running, files>>

----------------------------------------------------------------------------
(* The relay under a mix of requests. *)

Form(session_id, provider, query, has_file, save_dataset, save_format, save_shape, filename) ==
    [session_id |-> session_id, provider |-> provider, query |-> query,
     has_file |-> has_file, save_dataset |-> save_dataset,
     save_format |-> save_format, save_shape |-> save_shape, filename |-> filename]

Body(session_id, providers, save_dataset, save_format, save_shape, filename) ==
    [session_id |-> session_id, providers |-> providers,
     save_dataset |-> save_dataset, save_format |-> save_format,
     save_shape |-> save_shape, filename |-> filename]

Exit(stdout, stderr, returncode) ==
    [how |-> "exit", stdout |-> stdout, stderr |-> stderr, returncode |-> returncode]

Timeout == [NoProc EXCEPT !.how = "timeout"]

OsError == [NoProc EXCEPT !.how = "oserror"]

AskForms ==
    {Form("s1", <<"sky">>, <<"h", "i", " ">>, FALSE, "0", "", "", <<>>),
     Form("s1", <<"group">>, <<"h", "i", " ">>, FALSE, "0", "", "", <<>>),
     Form("s1", <<"bogus">>, <<"h", "i", " ">>, FALSE, "0", "", "", <<>>),
     Form("s1", <<"sky">>, <<" ">>, FALSE, "0", "", "", <<>>),
     Form("s1", <<>>, <<" ">>, TRUE, "0", "", "", <<>>),
     Form("s1", <<"bogus">>, <<" ">>, TRUE, "0", "", "", <<>>)}

BrainstormBodies ==
    {Body("s1", ps, FALSE, "", "", <<>>) :
        ps \in {<<"bogus">>, <<"kimi", "bogus", "sky">>, <<"group", "sky">>}}

Procs == {Exit(<<"o", "k", "\n">>, <<"w">>, 1), Timeout}

Init ==
    /\ USE_DB \in BOOLEAN
    /\ conversations = <<>>
    /\ dbFailures = 0
    /\ req = [r \in ReqIds |-> Idle]
    /\ queue = <<>>
    /\ running = {}
    /\ files = [p \in {} |-> <<>>]

Ask == \E r \in ReqIds, form \in AskForms : ask(r, form)

Brainstorm == \E r \in ReqIds, data \in BrainstormBodies : brainstorm(r, data)

History == \E r \in ReqIds, session_id \in {"", "s1"} : history(r, session_id)

ClearHistory == \E r \in ReqIds : clear_history(r, "s1")

Submit == \E r \in ReqIds : submit(r)

WorkerStart == worker_start

WorkerFinish == \E t \in running, proc \in Procs : worker_finish(t, proc)

Gather == \E r \in ReqIds : gather(r)

SaveReply == \E r \in ReqIds : save_reply(r)

Next ==
    \/ Ask
    \/ Brainstorm
    \/ History
    \/ ClearHistory
    \/ Submit
    \/ WorkerStart
    \/ WorkerFinish
    \/ Gather
    \/ SaveReply

Spec == Init /\ [][Next]_vars

----------------------------------------------------------------------------
(* Properties of the relay. *)

Fanout(r) == req[r].route \in {"ask", "brainstorm"}

\* r's fan-out has returned its list of replies.
Gathered(r) ==
    /\ Fanout(r)
    /\ req[r].providers # <<>>
    /\ req[r].pc \in {"save", "fetch", "exists", "open", "write", "done"}

\* r has been answered with replies.
Answered(r) ==
    /\ Fanout(r)
    /\ req[r].pc = "done"
    /\ req[r].body.kind \in {"reply", "multi"}

TimedOut(r, i) == req[r].calls[i].st = "done" /\ req[r].calls[i].proc.how = "timeout"

\* C1: ask_providers_parallel returns one entry per provider of its list, the
\* i-th entry tagged with the i-th provider and carrying that provider's
\* result, in whatever order the invocations completed.
C1_RepliesFollowProviders ==
    \A r \in ReqIds :
        Gathered(r) =>
            /\ Len(req[r].replies) = Len(req[r].providers)
            /\ \A i \in DOMAIN req[r].replies :
                  /\ req[r].replies[i].provider = req[r].providers[i]
                  /\ req[r].replies[i].reply = req[r].calls[i].text

\* A fan-out over several providers whose invocations completed out of list
\* order, one of them by timeout, has returned.
C1_Witness ==
    \E r \in ReqIds :
        /\ Gathered(r)
        /\ Len(req[r].providers) >= 3
        /\ req[r].overtaken
        /\ \E i, j \in DOMAIN req[r].calls :
              TimedOut(r, i) /\ req[r].calls[j].proc.how = "exit"

IsValidProvider(p) == p \in ValidSet

\* The request names a provider identifier that is not one of VALID_PROVIDERS
\* (nor the word "group", which stands for all of them).
NamesUnknown(r) ==
    \E i \in DOMAIN req[r].named : req[r].named[i] \notin ValidSet \cup {"group"}

\* /ask turned the request down: no query and no file, or an unknown provider.
AskRejected(r) ==
    /\ req[r].route = "ask"
    /\ \/ req[r].query = <<>> /\ req[r].body.error = <<"empty query">>
       \/ ~(req[r].named = <<"group">>
            \/ (Len(req[r].named) = 1 /\ req[r].named[1] \in ValidSet))

RepliedProviders(r) ==
    [i \in DOMAIN req[r].body.replies |-> req[r].body.replies[i].provider]

\* C3, as the spec states it: a request is answered with one reply per
\* provider, and a request that names an unknown provider starts no backend
\* invocation.
C3_UnknownProviderNeverInvokes ==
    \A r \in ReqIds :
        /\ (Fanout(r) /\ NamesUnknown(r)) => req[r].calls = <<>>
        /\ Answered(r) => RepliedProviders(r) = req[r].providers

\* C3, amended: /ask answers an accepted request with one reply per resolved
\* provider (the five of the group for "group") and starts no invocation for
\* a rejected one; /brainstorm rejects nothing: it drops the identifiers it
\* does not know and answers with one reply per identifier left, or one per
\* provider of the group when none is left.
C3_OneReplyPerResolvedProvider ==
    \A r \in ReqIds :
        /\ (req[r].route = "ask" /\ req[r].pc # "idle") =>
              IF AskRejected(r)
              THEN /\ req[r].calls = <<>>
                   /\ req[r].pc = "done" /\ req[r].body.kind = "error"
              ELSE /\ req[r].providers =
                        (IF req[r].named = <<"group">> THEN VALID_PROVIDERS
                         ELSE req[r].named)
                   /\ req[r].pc = "done" =>
                        /\ req[r].body.kind \in {"reply", "multi"}
                        /\ RepliedProviders(r) = req[r].providers
        /\ (req[r].route = "brainstorm" /\ req[r].pc # "idle") =>
              /\ req[r].providers =
                    (IF req[r].named = <<"group">>
                        \/ SelectSeq(req[r].named, IsValidProvider) = <<>>
                     THEN VALID_PROVIDERS
                     ELSE SelectSeq(req[r].named, IsValidProvider))
              /\ req[r].pc = "done" =>
                    /\ req[r].body.kind = "multi"
                    /\ RepliedProviders(r) = req[r].providers

\* /brainstorm has answered a request that named only an unknown provider,
\* and /ask has rejected one for its provider.
C3_Witness ==
    /\ \E r \in ReqIds :
          /\ req[r].route = "brainstorm" /\ Answered(r)
          /\ req[r].named = <<"bogus">>
          /\ Len(req[r].body.replies) = Len(VALID_PROVIDERS)
    /\ \E r \in ReqIds :
          /\ AskRejected(r) /\ req[r].pc = "done"
          /\ req[r].named = <<"bogus">>

\* C9: whatever names a request supplied, every reply produced by /ask or
\* /brainstorm and every backend invocation they start carries a provider
\* of VALID_PROVIDERS.
C9_ProvidersAreValid ==
    /\ \A r \in ReqIds :
          /\ \A i \in DOMAIN req[r].calls : req[r].providers[i] \in ValidSet
          /\ \A i \in DOMAIN req[r].replies : req[r].replies[i].provider \in ValidSet
          /\ \A i \in DOMAIN req[r].body.replies :
                req[r].body.replies[i].provider \in ValidSet
    /\ \A t \in running \cup Range(queue) : req[t[1]].providers[t[2]] \in ValidSet

\* A request that named an unknown provider among known ones has been
\* answered, while another invocation is still running.
C9_Witness ==
    /\ \E r \in ReqIds :
          /\ Answered(r) /\ NamesUnknown(r)
          /\ Len(req[r].body.replies) = 2
    /\ running # {}

\* /ask turned the request down for its provider, the query being there.
RejectedWithQuery(r) ==
    /\ req[r].route = "ask" /\ req[r].pc = "done"
    /\ req[r].query # <<>>
    /\ AskRejected(r)

\* The save_to_db calls an accepted request makes, in order: the user
\* message when there is one, then one per provider of its list.
ExpectedSaves(r) ==
    (IF req[r].route = "ask" /\ req[r].query # <<>>
     THEN <<[type |-> "user", provider |-> "user"]>> ELSE <<>>)
    \o [i \in DOMAIN req[r].providers |->
           [type |-> req[r].mtype, provider |-> req[r].providers[i]]]

SavesMade(r) ==
    [i \in DOMAIN req[r].saves |->
        [type |-> req[r].saves[i].type, provider |-> req[r].saves[i].provider]]

StoredRows(r) == {i \in DOMAIN req[r].saves : req[r].saves[i].stored}

\* C10, as stated: a request with a query and an unknown provider is rejected
\* with no invocation and no 'bot' entry, having appended exactly one 'user'
\* entry to the log; an accepted request appends its 'user' entry first and
\* its 'bot' entries in provider order.
C10_UserEntryAlwaysStored ==
    \A r \in ReqIds :
        /\ RejectedWithQuery(r) =>
              /\ req[r].calls = <<>>
              /\ SavesMade(r) = <<[type |-> "user", provider |-> "user"]>>
              /\ StoredRows(r) = {1}
        /\ req[r].route = "ask" => IsPrefix(SavesMade(r), ExpectedSaves(r))

\* C10, amended: the rejected request has made exactly one append, of type
\* 'user', and nothing else; the entry is in the log when the storage is
\* enabled and the insert did not fail, and is silently dropped otherwise.
\* An accepted request makes its 'user' append before any 'bot' append, and
\* its 'bot' appends in provider-list order.
C10_UserRecordedBeforeValidation ==
    \A r \in ReqIds :
        /\ RejectedWithQuery(r) =>
              /\ req[r].calls = <<>>
              /\ SavesMade(r) = <<[type |-> "user", provider |-> "user"]>>
              /\ ~USE_DB => StoredRows(r) = {}
              /\ (USE_DB /\ dbFailures = 0) => StoredRows(r) = {1}
        /\ req[r].route = "ask" =>
              /\ IsPrefix(SavesMade(r), ExpectedSaves(r))
              /\ ~USE_DB => StoredRows(r) = {}
              /\ (USE_DB /\ dbFailures = 0) => StoredRows(r) = DOMAIN req[r].saves
              /\ req[r].pc = "done" /\ ~AskRejected(r) =>
                    SavesMade(r) = ExpectedSaves(r)

\* With the storage up, one request has been rejected for its provider with
\* its user message stored, and a request over the whole group has stored
\* its user message and its five replies.
C10_Witness ==
    /\ USE_DB
    /\ \E r \in ReqIds : RejectedWithQuery(r) /\ StoredRows(r) = {1}
                         /\ req[r].named = <<"bogus">>
    /\ \E r \in ReqIds :
          /\ req[r].route = "ask" /\ Answered(r)
          /\ Len(req[r].saves) = 1 + Len(VALID_PROVIDERS)
          /\ StoredRows(r) = DOMAIN req[r].saves

\* C5, as stated: no Session Recorder operation surfaces a persistence
\* failure: no request fails, an append that cannot be stored changes
\* nothing, fetch answers with an empty list, clear does not fail its
\* request, and the replies are what the invocations returned.
C5_NoOperationSurfacesFailure ==
    /\ ~USE_DB => conversations = <<>>
    /\ \A r \in ReqIds :
          /\ req[r].pc = "done" => req[r].status # 500
          /\ (req[r].route = "history" /\ req[r].pc = "done" /\ req[r].session_id # ""
                /\ ~USE_DB) =>
                req[r].body.kind = "history" /\ req[r].body.history = <<>>
          /\ (Fanout(r) /\ req[r].pc = "done" /\ req[r].providers # <<>>) =>
                req[r].body.replies =
                    [i \in DOMAIN req[r].providers |->
                        [provider |-> req[r].providers[i],
                         reply |-> req[r].calls[i].text]]

\* C5, amended: append and fetch contain a persistence failure (a no-op, an
\* empty list), and /ask, /brainstorm and /history answer as they do with the
\* storage available; clear does not: /clear-history answers 500 with the
\* error text when the storage is disabled or its statement fails.
C5_OnlyClearSurfacesFailure ==
    /\ ~USE_DB => conversations = <<>>
    /\ \A r \in ReqIds :
          /\ (req[r].pc = "done" /\ req[r].route # "clear") => req[r].status # 500
          /\ (req[r].pc = "done" /\ req[r].route = "clear") =>
                /\ ~USE_DB => req[r].status = 500 /\ req[r].body.kind = "error"
                /\ (USE_DB /\ dbFailures = 0) => req[r].status = 200
          /\ (req[r].route = "history" /\ req[r].pc = "done" /\ req[r].session_id # ""
                /\ ~USE_DB) =>
                req[r].body.kind = "history" /\ req[r].body.history = <<>>
          /\ (Fanout(r) /\ req[r].pc = "done" /\ req[r].providers # <<>>) =>
                req[r].body.replies =
                    [i \in DOMAIN req[r].providers |->
                        [provider |-> req[r].providers[i],
                         reply |-> req[r].calls[i].text]]

\* With the storage disabled, /ask has answered with its reply and /history
\* with an empty list.
C5_Witness ==
    /\ ~USE_DB
    /\ \E r \in ReqIds : req[r].route = "ask" /\ Answered(r) /\ req[r].saves # <<>>
    /\ \E r \in ReqIds : req[r].route = "history" /\ req[r].pc = "done"
                         /\ req[r].status = 200

----------------------------------------------------------------------------
(* The Backend Invoker over the results a subprocess can have: one /ask    *)
(* for one provider, its subprocess ending with any of InvokeProcs.        *)

Pad(n) == Rep(" ", n)

Outputs == {<<>>, <<" ", "\n">>, <<"o">>, <<"\n", "o", " ", "k", "\n">>}

ErrorTexts ==
    {Pad(l) \o body \o Pad(t) :
        l \in 0..1, t \in 0..1,
        body \in {<<>>, <<"e", " ", "r">>,
                  Rep("a", ErrLimit - 1) \o <<"b">>,
                  Rep("a", ErrLimit - 1) \o <<"b", "c">>,
                  Rep("a", ErrLimit) \o <<" ", "c">>}}

InvokeProcs ==
    {Exit(o, e, c) : o \in Outputs, e \in ErrorTexts, c \in {0, 1}}
    \cup {Timeout, OsError}

InvokeForms ==
    {Form("s1", <<VALID_PROVIDERS[i]>>, <<"h", "i">>, FALSE, "0", "", "", <<>>) :
        i \in DOMAIN VALID_PROVIDERS}

InvokeAsk == \E form \in InvokeForms : ask(1, form)

InvokeSubmit == submit(1)

InvokeFinish == \E t \in running, proc \in InvokeProcs : worker_finish(t, proc)

InvokeGather == gather(1)

InvokeSaveReply == save_reply(1)

NextInvoke ==
    \/ InvokeAsk
    \/ InvokeSubmit
    \/ WorkerStart
    \/ InvokeFinish
    \/ InvokeGather
    \/ InvokeSaveReply

SpecInvoke == Init /\ [][NextInvoke]_vars

AllSpace(s) == \A i \in DOMAIN s : IsSpace(s[i])

FirstInk(s) ==
    CHOOSE i \in DOMAIN s : ~IsSpace(s[i]) /\ \A j \in 1..(i - 1) : IsSpace(s[j])

LastInk(s) ==
    CHOOSE i \in DOMAIN s : ~IsSpace(s[i]) /\ \A j \in (i + 1)..Len(s) : IsSpace(s[j])

\* s without its leading and trailing whitespace
Trimmed(s) == IF AllSpace(s) THEN <<>> ELSE SubSeq(s, FirstInk(s), LastInk(s))

\* C4: a completed invocation of provider X with trimmed output O and
\* trimmed error text E is answered with O when O is not empty, whatever the
\* exit code and E; with "[X error] " and the first 800 characters of E when
\* O is empty and E is not; with "[X] (no output)" when both are empty.
C4_ReplyOfCompletedInvocation ==
    \A r \in ReqIds :
        \A i \in DOMAIN req[r].body.replies :
            LET X == req[r].body.replies[i].provider
                reply == req[r].body.replies[i].reply
                proc == req[r].calls[i].proc
                O == Trimmed(proc.stdout)
                E == Trimmed(proc.stderr)
            IN  proc.how = "exit" =>
                    /\ O # <<>> => reply = O
                    /\ (O = <<>> /\ E # <<>>) =>
                          /\ Len(reply) = 4 + Min(Len(E), ErrLimit)
                          /\ SubSeq(reply, 1, 4) = <<"[", X, " error]", " ">>
                          /\ \A k \in 1..Min(Len(E), ErrLimit) : reply[4 + k] = E[k]
                    /\ (O = <<>> /\ E = <<>>) =>
                          reply = <<"[", X, "]", " (no output)">>

\* An invocation that exited non-zero with only blank output and an error
\* text longer than 800 characters between blanks has been answered.
C4_Witness ==
    \E r \in ReqIds :
        /\ req[r].pc = "done" /\ req[r].body.kind = "reply"
        /\ LET proc == req[r].calls[1].proc
           IN  /\ proc.how = "exit" /\ proc.returncode = 1
               /\ proc.stdout = <<" ", "\n">>
               /\ Len(Trimmed(proc.stderr)) > ErrLimit
               /\ IsSpace(proc.stderr[1])
               /\ Len(req[r].body.replies[1].reply) = 4 + ErrLimit

----------------------------------------------------------------------------
(* The Dataset Exporter under requests that save to one destination. *)

ExportForms ==
    {Form("s1", <<"sky">>, <<"h", "i">>, FALSE, "1", fmt, shape, <<"d", "/", "s">>) :
        fmt \in {"", "json"}, shape \in {"", "dialog"}}

ExportBodies ==
    {Body("s1", <<"kimi", "sky">>, TRUE, fmt, "lines", <<"d", "/", "s">>) :
        fmt \in {"csv", "json"}}

ExportProcs == {Exit(<<"o", "k">>, <<>>, 0)}

ExportAsk == \E r \in ReqIds, form \in ExportForms : ask(r, form)

ExportBrainstorm == \E r \in ReqIds, data \in ExportBodies : brainstorm(r, data)

ExportFinish == \E t \in running, proc \in ExportProcs : worker_finish(t, proc)

ExportFetch == \E r \in ReqIds : export_fetch(r)

ExportExists == \E r \in ReqIds : export_exists(r)

ExportOpen == \E r \in ReqIds : export_open(r)

ExportWrite == \E r \in ReqIds : export_write(r)

NextExport ==
    \/ ExportAsk
    \/ ExportBrainstorm
    \/ Submit
    \/ WorkerStart
    \/ ExportFinish
    \/ Gather
    \/ SaveReply
    \/ ExportFetch
    \/ ExportExists
    \/ ExportOpen
    \/ ExportWrite

SpecExport == Init /\ [][NextExport]_vars

IsRecord(line) == line.kind # "header"

IsHeader(line) == line.kind = "header"

\* The records (the lines that are not a header) of a file
Records(fp) == SelectSeq(files[fp], IsRecord)

\* r's handler has exported to its destination and answered.
Exported(r) ==
    /\ Fanout(r) /\ req[r].pc = "done" /\ req[r].save_dataset
    /\ req[r].body.saved_to = Fp(req[r])

\* r1 and r2 exported the same entries, in the same shape and encoding, to
\* the same destination, and nothing else was exported there.
SameExportTwice(r1, r2) ==
    /\ r1 # r2 /\ Exported(r1) /\ Exported(r2)
    /\ Fp(req[r1]) = Fp(req[r2])
    /\ req[r1].save_shape = req[r2].save_shape
    /\ req[r1].session_id = req[r2].session_id
    /\ req[r1].entries = req[r2].entries
    /\ req[r1].dialog = req[r2].dialog
    /\ \A r3 \in ReqIds \ {r1, r2} :
          ~(req[r3].save_dataset /\ req[r3].pc \in {"write", "done"}
            /\ Fp(req[r3]) = Fp(req[r1]))

\* The records one export of r's entries leaves: one per entry for the
\* lines shape, one for the whole dialog.
RecordsOfOne(r) ==
    IF req[r].save_shape = "dialog"
    THEN <<[session_id |-> req[r].session_id, provider |-> "", message |-> <<>>,
            type |-> "", dialog |-> req[r].dialog]>>
    ELSE [k \in DOMAIN req[r].entries |->
            [session_id |-> req[r].session_id,
             provider |-> req[r].entries[k].provider,
             message |-> req[r].entries[k].message,
             type |-> req[r].entries[k].type, dialog |-> <<>>]]

Content(line) ==
    [session_id |-> line.session_id, provider |-> line.provider,
     message |-> line.message, type |-> line.type, dialog |-> line.dialog]

AppendOnly ==
    \A fp \in DOMAIN files :
        fp \in DOMAIN files' /\ IsPrefix(files[fp], files'[fp])

TwiceTheRecords ==
    \A r1, r2 \in ReqIds :
        SameExportTwice(r1, r2) =>
            LET one  == RecordsOfOne(r1)
                recs == Records(Fp(req[r1]))
            IN  /\ Len(recs) = 2 * Len(one)
                /\ \A k \in DOMAIN one :
                      /\ Content(recs[k]) = one[k]
                      /\ Content(recs[Len(one) + k]) = one[k]

\* C7: export is append-only in either encoding: the same entries exported
\* twice to one destination leave twice the records of one export there, and
\* every step leaves what a file held as a prefix of what it holds after.
C7_ExportAppendsTwice == []TwiceTheRecords /\ [][AppendOnly]_vars

\* Two requests have exported the same two entries as csv rows to the same
\* destination, which holds the four records.
C7_Witness ==
    \E r1, r2 \in ReqIds :
        /\ SameExportTwice(r1, r2)
        /\ req[r1].save_format = "csv" /\ req[r1].save_shape = "lines"
        /\ Len(req[r1].entries) = 2
        /\ Len(Records(Fp(req[r1]))) = 4

Headers(fp) == SelectSeq(files[fp], IsHeader)

\* No export to fp is under way: no handler stands between its look at
\* fp.exists() and the end of its write.
Settled(fp) ==
    \A r \in ReqIds :
        ~(req[r].save_dataset /\ req[r].pc \in {"open", "write"} /\ Fp(req[r]) = fp)

\* C8: after any exports to one csv destination, those of concurrent
\* requests and of both shapes included, the destination holds its header
\* row once, as its first line.
C8_HeaderOnceAndFirst ==
    \A fp \in DOMAIN files :
        (fp[2] = ".csv" /\ Settled(fp) /\ files[fp] # <<>>) =>
            /\ IsHeader(files[fp][1])
            /\ Len(Headers(fp)) = 1

----------------------------------------------------------------------------
(* The shared executor under more calls than it has workers.  A subprocess *)
(* ends or is killed at TGPT_TIMEOUT, so a running call always finishes; a *)
(* worker thread that is free takes the next queued call; a handler that   *)
(* can go on does.                                                         *)

PoolForms ==
    {Form("s1", p, <<"h", "i">>, FALSE, "0", "", "", <<>>) :
        p \in {<<"group">>, <<"sky">>}}

PoolBodies == {Body("s1", <<"kimi", "sky">>, FALSE, "", "", <<>>)}

PoolAsk == \E r \in ReqIds, form \in PoolForms : ask(r, form)

PoolBrainstorm == \E r \in ReqIds, data \in PoolBodies : brainstorm(r, data)

Calls == ReqIds \X (1..Len(VALID_PROVIDERS))

FinishCall(t) == \E proc \in Procs : worker_finish(t, proc)

NextPool ==
    \/ PoolAsk
    \/ PoolBrainstorm
    \/ Submit
    \/ WorkerStart
    \/ WorkerFinish
    \/ Gather
    \/ SaveReply

\* The storage plays no part in the executor: it is disabled here.
InitPool == Init /\ ~USE_DB

SpecPool ==
    /\ InitPool
    /\ [][NextPool]_vars
    /\ WF_vars(WorkerStart)
    /\ \A t \in Calls : WF_vars(FinishCall(t))
    /\ WF_vars(Submit)
    /\ WF_vars(Gather)
    /\ WF_vars(SaveReply)

Queued(t) == t \in Range(queue)

Started(t) ==
    /\ t[2] \in DOMAIN req[t[1]].calls
    /\ req[t[1]].calls[t[2]].st \in {"running", "done"}

\* The subprocesses alive: one per call a worker is executing.
Subprocesses == {t \in Calls : t[2] \in DOMAIN req[t[1]].calls
                               /\ req[t[1]].calls[t[2]].st = "running"}

AtMostFiveRun == Cardinality(Subprocesses) <= 5 /\ Subprocesses = running

\* A call leaves the queue only in a step that begins with fewer than five
\* subprocesses alive, and it is the oldest queued call that leaves.
StartsInTurn ==
    \A t \in Calls :
        (Queued(t) /\ ~Queued(t)') =>
            /\ Cardinality(Subprocesses) < 5
            /\ t = Head(queue)
            /\ Started(t)'

\* C6: over all the requests in progress at most 5 backend subprocesses run
\* at once; a further call waits in the pool's queue and starts only once
\* fewer than 5 are running; every queued call eventually starts.
C6_PoolBoundsSubprocesses ==
    /\ []AtMostFiveRun
    /\ [][StartsInTurn]_vars
    /\ \A t \in Calls : Queued(t) ~> Started(t)

\* Five subprocesses run and a sixth call waits in the queue.
C6_Witness ==
    /\ Cardinality(Subprocesses) = 5
    /\ queue # <<>>
    /\ \E t \in running : t[1] # Head(queue)[1]

\* The reply of every invocation that ran into the timeout names its
\* provider in an error tag.
TimeoutIsTagged ==
    \A r \in ReqIds :
        /\ \A i \in DOMAIN req[r].calls :
              TimedOut(r, i) =>
                  Contains(req[r].calls[i].text,
                           <<"[", req[r].providers[i], " error]">>)
        /\ \A i \in DOMAIN req[r].body.replies :
              TimedOut(r, i) =>
                  Contains(req[r].body.replies[i].reply,
                           <<"[", req[r].body.replies[i].provider, " error]">>)

\* C2, as stated: the reply of a provider whose invocation timed out holds
\* "[X error]", and no invocation is kept from starting by invocations that
\* are still running, however many are outstanding on the pool: a submitted
\* call never waits while the pool's workers are all taken.
C2_NothingWaitsBehindRunning ==
    /\ TimeoutIsTagged
    /\ queue # <<>> => Cardinality(running) < 5

\* C2, amended: the reply of a provider whose invocation timed out holds
\* "[X error]"; a running invocation can always complete, whatever the
\* others do; a queued invocation can start at once while fewer than 5
\* invocations are running, and waits only while 5 are running, until one of
\* them finishes or times out.
C2_WaitsOnlyForFullPool ==
    /\ TimeoutIsTagged
    /\ \A t \in running : ENABLED FinishCall(t)
    /\ (queue # <<>> /\ Cardinality(running) < 5) => ENABLED WorkerStart
    /\ (queue # <<>> /\ ~ENABLED WorkerStart) => Cardinality(running) = 5

\* With five invocations running and a sixth call waiting, one invocation
\* has just timed out: its reply is tagged, the four others of other
\* providers still run, and the waiting call can start.
C2_Witness ==
    /\ \E r \in ReqIds : \E i \in DOMAIN req[r].calls :
          /\ TimedOut(r, i)
          /\ \A t \in running : req[t[1]].providers[t[2]] # req[r].providers[i]
    /\ queue # <<>>
    /\ Cardinality(running) = 4

====
